---- MODULE Spec2Model ----
(***************************************************************************)
(* Model of app.py of the job application assistant: one click of the      *)
(* "Generate Cover Letter" button runs main()'s handler, which reads the   *)
(* credential, extracts the CV text, checks the two texts, calls the       *)
(* generation service once and displays the result.                        *)
(*                                                                         *)
(* Python strings are sequences of one-character strings.  Python values   *)
(* that may be None, a string, a number or a container are tagged records. *)
(***************************************************************************)
EXTENDS Integers, Sequences, FiniteSets, TLC

VARIABLES
    pc,                \* position inside main()'s click handler
    apiKey,            \* os.getenv("GEMINI_API_KEY")
    cvFile,            \* st.file_uploader result: PyNone or an uploaded file
    cvTextInput,       \* the free-text CV field
    jobDescription,    \* the job description field
    extractCalled,     \* extract_cv_text was entered in this click
    extractorsInvoked, \* format extractors entered in this click
    libRaised,         \* the extraction library raised in this click
    extracted,         \* what extract_cv_text returned
    cvText,            \* main()'s cv_text
    netCalls,          \* requests.post calls issued in this click
    prompt,            \* the prompt sent with the request
    response,          \* what the service did with the request
    coverLetter,       \* main()'s cover_letter
    displayed,         \* value of the "Your Cover Letter" text area
    download,          \* what the download button offers
    messages,          \* st.error / st.warning calls of this click, in order
    exception          \* exception that escaped main(), "none" otherwise

vars == <<pc, apiKey, cvFile, cvTextInput, jobDescription, extractCalled,
          extractorsInvoked, libRaised, extracted, cvText, netCalls, prompt,
          response, coverLetter, displayed, download, messages, exception>>

(***************************************************************************)
(* Bounds                                                                  *)
(***************************************************************************)
MaxLen == 2      \* longest text typed by the user or sent by the service
MaxPages == 2    \* most pages of an uploaded PDF

(***************************************************************************)
(* Python values                                                           *)
(***************************************************************************)
PyNone == [t |-> "None"]
PyStr(s) == [t |-> "str", s |-> s]
PyInt(n) == [t |-> "int", i |-> n]
PyList(n) == [t |-> "list", n |-> n]
PyDict(has, v) == [t |-> "dict", has |-> has, v |-> v]
PyFile(name) == [t |-> "file", name |-> name]

\* bool(v), as "if not v" evaluates it
Truthy(v) ==
    CASE v.t = "None" -> FALSE
      [] v.t = "str" -> v.s # <<>>
      [] v.t = "int" -> v.i # 0
      [] v.t = "list" -> v.n # 0
      [] v.t = "file" -> TRUE

Chars == {" ", "a"}
Whitespace == {" ", "\n"}
Str == UNION {[1..n -> Chars] : n \in 0..MaxLen}

RECURSIVE LStrip(_)
LStrip(s) ==
    IF s = <<>> THEN s
    ELSE IF Head(s) \in Whitespace THEN LStrip(Tail(s)) ELSE s

RECURSIVE RStrip(_)
RStrip(s) ==
    IF s = <<>> THEN s
    ELSE IF s[Len(s)] \in Whitespace THEN RStrip(SubSeq(s, 1, Len(s) - 1)) ELSE s

\* str.strip()
Strip(s) == RStrip(LStrip(s))

\* "\n".join(texts)
RECURSIVE JoinLines(_)
JoinLines(texts) ==
    IF texts = <<>> THEN <<>>
    ELSE IF Len(texts) = 1 THEN texts[1]
    ELSE texts[1] \o <<"\n">> \o JoinLines(Tail(texts))

(***************************************************************************)
(* User-visible messages                                                   *)
(***************************************************************************)
StError(text) == [level |-> "error", text |-> text]
StWarning(text) == [level |-> "warning", text |-> text]

MsgNoApiKey == StError("Gemini API key not found")
MsgUnsupported == StError("Unsupported file type")
MsgNoTextExtracted == StWarning("No text extracted from the uploaded CV file")
MsgNoCv == StWarning("Please provide your CV text or type your skills and experience")
MsgNoJobDescription == StWarning("Please provide the job description")
MsgNoGeneratedText == StError("API returned no generated text")
MsgRequestFailed == StError("API request failed")
MsgDecodeFailed == StError("Failed to decode API response")

(***************************************************************************)
(* Uploaded files.  A file name is the sequence of its dot-separated       *)
(* segments, name.split("."); the content is what the format libraries     *)
(* make of the bytes.                                                      *)
(***************************************************************************)
SUPPORTED_EXTENSIONS == {"pdf", "docx", "txt"}

FileNames ==
    { <<"cv", "pdf">>, <<"cv", "PDF">>, <<"cv", "Docx">>, <<"notes", "txt">>,
      <<"cv", "tar", "gz">>, <<"cv", "">>, <<"cv">>, <<"pdf">>,
      <<"pdf", "bak">> }

\* str.lower() on the segments that occur
Lower(seg) ==
    CASE seg = "PDF" -> "pdf"
      [] seg = "Docx" -> "docx"
      [] OTHER -> seg

\* uploaded_file.name.split(".")[-1].lower()
FileExt(name) == Lower(name[Len(name)])

\* page.extract_text(): None, a text, or an exception
PageRaises == [t |-> "raise"]
PageTexts == {<<>>, <<"a">>, <<" ">>, <<" ", "a">>}
PageVals == {PyNone, PageRaises} \cup {PyStr(s) : s \in PageTexts}
PageSeqs == UNION {[1..n -> PageVals] : n \in 0..MaxPages}

Contents ==
    {[kind |-> "garbage"]}
    \cup {[kind |-> "pdf", pages |-> p] : p \in PageSeqs}
    \cup {[kind |-> "docx", text |-> x] : x \in {PyNone} \cup {PyStr(s) : s \in Str}}
    \cup {[kind |-> "text", decoded |-> s] : s \in Str}

\* result of a format extractor: the returned text, whether the library
\* raised inside it, and the exception that left it ("none": it returned)
Returned(text, raised) == [ret |-> PyStr(text), raised |-> raised, exc |-> "none"]
Propagated(e) == [ret |-> PyNone, raised |-> TRUE, exc |-> e]

PageText(page) == IF Truthy(page) THEN page.s ELSE <<>>

ExtractTextFromPdf(content) ==
    IF content.kind # "pdf"
    THEN Returned(<<>>, TRUE)
    ELSE IF \E i \in 1..Len(content.pages) : content.pages[i] = PageRaises
         THEN Returned(<<>>, TRUE)
         ELSE Returned(Strip(JoinLines([i \in 1..Len(content.pages) |->
                                           PageText(content.pages[i])])), FALSE)

ExtractTextFromDocx(content) ==
    IF content.kind # "docx"
    THEN Returned(<<>>, TRUE)
    ELSE IF Truthy(content.text)
         THEN Returned(Strip(content.text.s), FALSE)
         ELSE Returned(<<>>, FALSE)

ExtractTextFromTxt_nocatch(content) ==
    IF content.kind # "text"
    THEN Propagated("UnicodeDecodeError")
    ELSE Returned(Strip(content.decoded), FALSE)

ExtractTextFromTxt(content) ==
    IF content.kind # "text"
    THEN Returned(<<>>, TRUE)
    ELSE Returned(Strip(content.decoded), FALSE)

\* result of extract_cv_text: return value, messages shown, extractors
\* entered, whether the library raised, exception that left the function
CvResult(ret, msgs, invoked, raised, exc) ==
    [ret |-> ret, msgs |-> msgs, invoked |-> invoked, raised |-> raised, exc |-> exc]

Dispatch(ext, content) ==
    CASE ext = "pdf" -> ExtractTextFromPdf(content)
      [] ext = "docx" -> ExtractTextFromDocx(content)
      [] ext = "txt" -> ExtractTextFromTxt(content)

AfterExtractor(ext, r) ==
    IF r.exc # "none"
    THEN CvResult(PyNone, <<>>, {ext}, r.raised, r.exc)
    ELSE CvResult(r.ret,
                  IF Truthy(r.ret) THEN <<>> ELSE <<MsgNoTextExtracted>>,
                  {ext}, r.raised, "none")

\* extract_cv_text
ExtractCvText(file, content) ==
    IF ~Truthy(file)
    THEN CvResult(PyNone, <<>>, {}, FALSE, "none")
    ELSE IF FileExt(file.name) \notin SUPPORTED_EXTENSIONS
         THEN CvResult(PyNone, <<MsgUnsupported>>, {}, FALSE, "none")
         ELSE AfterExtractor(FileExt(file.name), Dispatch(FileExt(file.name), content))

(***************************************************************************)
(* Prompt builder                                                          *)
(***************************************************************************)
BuildPrompt(cv, job) ==
    <<"You are a helpful assistant that writes a professional, tailored cover letter based on the candidate's CV or skills and the job description provided.\n\n",
      "Candidate's CV / Skills and Experience:\n">>
    \o cv \o <<"\n\n", "Job Description:\n">>
    \o job \o <<"\n\n", "Write a tailored cover letter for this job application.">>

(***************************************************************************)
(* Generation client.  A response is what the service and the transport    *)
(* do with the one POST: the transport raises, the request times out, the  *)
(* status is not a success, the body is not JSON, or the body is a JSON    *)
(* value.  A JSON object is described by its "generated_text" member.      *)
(***************************************************************************)
\* the class response.json() raises on a malformed body: requests'
\* JSONDecodeError (a RequestException and a ValueError) from requests
\* 2.27 on, json's or simplejson's JSONDecodeError (a ValueError) before
JsonDecodeErrors == {"requests.exceptions.JSONDecodeError", "json.JSONDecodeError"}

IsRequestException(e) ==
    e \in {"ConnectionError", "Timeout", "HTTPError", "requests.exceptions.JSONDecodeError"}

IsValueError(e) ==
    e \in {"requests.exceptions.JSONDecodeError", "json.JSONDecodeError"}

FieldVals ==
    {PyNone, PyInt(0), PyInt(5), PyList(0), PyList(1)} \cup {PyStr(s) : s \in Str}

JsonVals ==
    {PyNone, PyInt(5), PyStr(<<"a">>), PyList(0), PyList(1), PyDict(FALSE, PyNone)}
    \cup {PyDict(TRUE, v) : v \in FieldVals}

Responses ==
    {[kind |-> "raise"], [kind |-> "timeout"], [kind |-> "status"]}
    \cup {[kind |-> "badjson", exc |-> e] : e \in JsonDecodeErrors}
    \cup {[kind |-> "json", data |-> d] : d \in JsonVals}

NoResponse == [kind |-> "unsent"]

\* outcome of a block of code: it returned ret after showing msgs, or
\* raised exc
Return(ret, msgs) == [ret |-> ret, msgs |-> msgs, exc |-> "none"]
Raise(e) == [ret |-> PyNone, msgs |-> <<>>, exc |-> e]

\* data.get("generated_text") on a dict
DictGet(data) == IF data.has THEN data.v ELSE PyNone

GeneratedText_nostrip(g) ==
    IF ~Truthy(g) THEN Return(PyNone, <<MsgNoGeneratedText>>)
    ELSE IF g.t # "str" THEN Raise("AttributeError")
    ELSE Return(g, <<>>)

\* lines 98-101, given the value of data.get("generated_text")
GeneratedText(g) ==
    IF ~Truthy(g) THEN Return(PyNone, <<MsgNoGeneratedText>>)
    ELSE IF g.t # "str" THEN Raise("AttributeError")
    ELSE Return(PyStr(Strip(g.s)), <<>>)

\* the body of the try block, lines 93-101
TryBody(resp) ==
    CASE resp.kind = "raise" -> Raise("ConnectionError")
      [] resp.kind = "timeout" -> Raise("Timeout")
      [] resp.kind = "status" -> Raise("HTTPError")
      [] resp.kind = "badjson" -> Raise(resp.exc)
      [] resp.kind = "json" ->
            IF resp.data.t # "dict" THEN Raise("AttributeError")
            ELSE GeneratedText(DictGet(resp.data))

\* call_gemini_api: the try block and its two except clauses, in order
CallGeminiApi(resp) ==
    LET r == TryBody(resp) IN
    IF r.exc = "none" THEN r
    ELSE IF IsRequestException(r.exc) THEN Return(PyNone, <<MsgRequestFailed>>)
    ELSE IF IsValueError(r.exc) THEN Return(PyNone, <<MsgDecodeFailed>>)
    ELSE r

(***************************************************************************)
(* main(): the click handler                                               *)
(***************************************************************************)
ApiKeys == {PyNone, PyStr(<<>>), PyStr(<<"k">>)}
Files == {PyNone} \cup {PyFile(n) : n \in FileNames}

Init ==
    /\ pc = "idle"
    /\ apiKey \in ApiKeys
    /\ cvFile = PyNone
    /\ cvTextInput = <<>>
    /\ jobDescription = <<>>
    /\ extractCalled = FALSE
    /\ extractorsInvoked = {}
    /\ libRaised = FALSE
    /\ extracted = PyNone
    /\ cvText = PyNone
    /\ netCalls = 0
    /\ prompt = <<>>
    /\ response = NoResponse
    /\ coverLetter = PyNone
    /\ displayed = PyNone
    /\ download = PyNone
    /\ messages = <<>>
    /\ exception = "none"

\* every widget event reruns the script from the top on a cleared page
ClearPage ==
    /\ extractCalled' = FALSE
    /\ extractorsInvoked' = {}
    /\ libRaised' = FALSE
    /\ extracted' = PyNone
    /\ cvText' = PyNone
    /\ netCalls' = 0
    /\ prompt' = <<>>
    /\ response' = NoResponse
    /\ coverLetter' = PyNone
    /\ displayed' = PyNone
    /\ download' = PyNone
    /\ messages' = <<>>
    /\ exception' = "none"

AtRest == pc \in {"idle", "done", "crashed"}

\* lines 133-135: the user uploads, replaces or removes the CV file;
\* the button reads False in that run
UploadFile ==
    /\ AtRest
    /\ cvFile' \in Files
    /\ pc' = "idle"
    /\ ClearPage
    /\ UNCHANGED <<apiKey, cvTextInput, jobDescription>>

\* lines 137-141
TypeCvText ==
    /\ AtRest
    /\ cvTextInput' \in Str
    /\ pc' = "idle"
    /\ ClearPage
    /\ UNCHANGED <<apiKey, cvFile, jobDescription>>

\* lines 143-147
TypeJobDescription ==
    /\ AtRest
    /\ jobDescription' \in Str
    /\ pc' = "idle"
    /\ ClearPage
    /\ UNCHANGED <<apiKey, cvFile, cvTextInput>>

\* lines 149-151: the user presses the button; generate_btn is True
Click ==
    /\ AtRest
    /\ pc' = "get_key"
    /\ ClearPage
    /\ UNCHANGED <<apiKey, cvFile, cvTextInput, jobDescription>>

CheckApiKey_noneonly ==
    /\ pc = "get_key"
    /\ IF apiKey = PyNone
       THEN /\ messages' = Append(messages, MsgNoApiKey)
            /\ pc' = "done"
       ELSE /\ pc' = "extract"
            /\ UNCHANGED messages
    /\ UNCHANGED <<apiKey, cvFile, cvTextInput, jobDescription, extractCalled,
                   extractorsInvoked, libRaised, extracted, cvText, netCalls,
                   prompt, response, coverLetter, displayed, download, exception>>

\* lines 153-156
CheckApiKey ==
    /\ pc = "get_key"
    /\ IF ~Truthy(apiKey)
       THEN /\ messages' = Append(messages, MsgNoApiKey)
            /\ pc' = "done"
       ELSE /\ pc' = "extract"
            /\ UNCHANGED messages
    /\ UNCHANGED <<apiKey, cvFile, cvTextInput, jobDescription, extractCalled,
                   extractorsInvoked, libRaised, extracted, cvText, netCalls,
                   prompt, response, coverLetter, displayed, download, exception>>

\* what lines 159-162 do with the outcome r of extract_cv_text
UseExtraction(r) ==
    /\ extractCalled' = TRUE
    /\ extractorsInvoked' = r.invoked
    /\ libRaised' = r.raised
    /\ messages' = messages \o r.msgs
    /\ IF r.exc = "none"
       THEN /\ extracted' = r.ret
            /\ cvText' = r.ret
            /\ pc' = "check_cv"
            /\ UNCHANGED exception
       ELSE /\ exception' = r.exc
            /\ pc' = "crashed"
            /\ UNCHANGED <<extracted, cvText>>

UseTextInput ==
    /\ cvText' = PyStr(Strip(cvTextInput))
    /\ pc' = "check_cv"
    /\ UNCHANGED <<extractCalled, extractorsInvoked, libRaised, extracted,
                   messages, exception>>

ExtractCv_fallback ==
    /\ pc = "extract"
    /\ IF Truthy(cvFile)
       THEN \E content \in Contents :
               LET r == ExtractCvText(cvFile, content) IN
               /\ extractCalled' = TRUE
               /\ extractorsInvoked' = r.invoked
               /\ libRaised' = r.raised
               /\ messages' = messages \o r.msgs
               /\ extracted' = r.ret
               /\ cvText' = IF Truthy(r.ret) THEN r.ret ELSE PyStr(Strip(cvTextInput))
               /\ pc' = "check_cv"
               /\ UNCHANGED exception
       ELSE UseTextInput
    /\ UNCHANGED <<apiKey, cvFile, cvTextInput, jobDescription, netCalls, prompt,
                   response, coverLetter, displayed, download>>

\* lines 159-162
ExtractCv ==
    /\ pc = "extract"
    /\ IF Truthy(cvFile)
       THEN \E content \in Contents : UseExtraction(ExtractCvText(cvFile, content))
       ELSE UseTextInput
    /\ UNCHANGED <<apiKey, cvFile, cvTextInput, jobDescription, netCalls, prompt,
                   response, coverLetter, displayed, download>>

\* lines 164-166
CheckCvText ==
    /\ pc = "check_cv"
    /\ IF ~Truthy(cvText)
       THEN /\ messages' = Append(messages, MsgNoCv)
            /\ pc' = "done"
       ELSE /\ pc' = "check_job"
            /\ UNCHANGED messages
    /\ UNCHANGED <<apiKey, cvFile, cvTextInput, jobDescription, extractCalled,
                   extractorsInvoked, libRaised, extracted, cvText, netCalls,
                   prompt, response, coverLetter, displayed, download, exception>>

CheckJobDescription_nostrip ==
    /\ pc = "check_job"
    /\ IF jobDescription = <<>>
       THEN /\ messages' = Append(messages, MsgNoJobDescription)
            /\ pc' = "done"
       ELSE /\ pc' = "generate"
            /\ UNCHANGED messages
    /\ UNCHANGED <<apiKey, cvFile, cvTextInput, jobDescription, extractCalled,
                   extractorsInvoked, libRaised, extracted, cvText, netCalls,
                   prompt, response, coverLetter, displayed, download, exception>>

\* lines 168-170
CheckJobDescription ==
    /\ pc = "check_job"
    /\ IF Strip(jobDescription) = <<>>
       THEN /\ messages' = Append(messages, MsgNoJobDescription)
            /\ pc' = "done"
       ELSE /\ pc' = "generate"
            /\ UNCHANGED messages
    /\ UNCHANGED <<apiKey, cvFile, cvTextInput, jobDescription, extractCalled,
                   extractorsInvoked, libRaised, extracted, cvText, netCalls,
                   prompt, response, coverLetter, displayed, download, exception>>

\* lines 172-174: build the prompt, post it once, take the service's answer
Generate ==
    /\ pc = "generate"
    /\ prompt' = BuildPrompt(cvText.s, Strip(jobDescription))
    /\ netCalls' = netCalls + 1
    /\ \E resp \in Responses :
          LET r == CallGeminiApi(resp) IN
          /\ response' = resp
          /\ messages' = messages \o r.msgs
          /\ IF r.exc = "none"
             THEN /\ coverLetter' = r.ret
                  /\ pc' = "display"
                  /\ UNCHANGED exception
             ELSE /\ exception' = r.exc
                  /\ pc' = "crashed"
                  /\ UNCHANGED coverLetter
    /\ UNCHANGED <<apiKey, cvFile, cvTextInput, jobDescription, extractCalled,
                   extractorsInvoked, libRaised, extracted, cvText, displayed,
                   download>>

\* lines 176-186
Display ==
    /\ pc = "display"
    /\ IF Truthy(coverLetter)
       THEN /\ displayed' = coverLetter
            /\ download' = [file_name |-> "cover_letter.txt", data |-> coverLetter]
       ELSE UNCHANGED <<displayed, download>>
    /\ pc' = "done"
    /\ UNCHANGED <<apiKey, cvFile, cvTextInput, jobDescription, extractCalled,
                   extractorsInvoked, libRaised, extracted, cvText, netCalls,
                   prompt, response, coverLetter, messages, exception>>

Next ==
    \/ UploadFile
    \/ TypeCvText
    \/ TypeJobDescription
    \/ Click
    \/ CheckApiKey
    \/ ExtractCv
    \/ CheckCvText
    \/ CheckJobDescription
    \/ Generate
    \/ Display

Spec == Init /\ [][Next]_vars

(***************************************************************************)
(* Properties                                                              *)
(***************************************************************************)
KeyMissing == apiKey = PyNone \/ apiKey = PyStr(<<>>)
InClick == pc # "idle"
PastExtract == ~KeyMissing /\ pc \notin {"idle", "get_key", "extract"}
Shown(msg) == \E i \in 1..Len(messages) : messages[i] = msg
CoverLetterFile(text) == [file_name |-> "cover_letter.txt", data |-> text]

\* C1: in a click with the credential absent or empty, the only thing that
\* happens is the credential error: extract_cv_text is not entered, no
\* format extractor runs and no request is posted, at any point of the
\* click, whatever the file, the free text and the job description are.
C1_NoKeyAbortsFirst ==
    (InClick /\ KeyMissing) =>
        /\ ~extractCalled
        /\ extractorsInvoked = {}
        /\ netCalls = 0
        /\ response = NoResponse
        /\ \/ pc = "get_key" /\ messages = <<>>
           \/ pc = "done" /\ messages = <<MsgNoApiKey>>

C1_Witness ==
    /\ pc = "done"
    /\ apiKey = PyStr(<<>>)
    /\ cvFile = PyFile(<<"cv", "pdf">>)
    /\ cvTextInput = <<"a">>
    /\ jobDescription = <<"a">>
    /\ messages = <<MsgNoApiKey>>

\* C2: a request is posted only if the CV text in use is non-empty and
\* the trimmed job description is non-empty; with a credential, no file
\* and a blank free-text field the click ends with the CV warning alone
\* and no request; with a CV text and a blank job description it ends
\* with the job-description warning and no request.
C2_NetCallNeedsBothTexts ==
    /\ netCalls > 0 =>
          /\ cvText.t = "str"
          /\ cvText.s # <<>>
          /\ Strip(jobDescription) # <<>>
    /\ (pc = "done" /\ ~KeyMissing /\ cvFile = PyNone /\ Strip(cvTextInput) = <<>>) =>
          /\ messages = <<MsgNoCv>>
          /\ netCalls = 0
    /\ (pc = "done" /\ ~KeyMissing /\ cvText.t = "str" /\ cvText.s # <<>>
          /\ Strip(jobDescription) = <<>>) =>
          /\ messages = <<MsgNoJobDescription>>
          /\ netCalls = 0

C2_Witness ==
    /\ pc = "done"
    /\ apiKey = PyStr(<<"k">>)
    /\ cvFile = PyNone
    /\ cvTextInput = <<" ">>
    /\ jobDescription = <<"a">>
    /\ messages = <<MsgNoCv>>
    /\ netCalls = 0

\* the service outcomes C3 lists: transport raises, timeout, non-success
\* status, malformed body, JSON without a string "generated_text" member
FailureOutcome(resp) ==
    \/ resp.kind \in {"raise", "timeout", "status", "badjson"}
    \/ /\ resp.kind = "json"
       /\ ~(resp.data.t = "dict" /\ resp.data.has /\ resp.data.v.t = "str")

\* C3: for every failure outcome of the service call_gemini_api returns
\* None and no exception leaves it.
C3_FailureNeverEscapes ==
    (netCalls > 0 /\ FailureOutcome(response)) =>
        /\ exception = "none"
        /\ coverLetter = PyNone

\* C4: whatever the service answers, what call_gemini_api returns is None
\* or a non-empty string.
C4_ResultNonEmptyOrNone ==
    (netCalls > 0 /\ pc \in {"display", "done"}) =>
        \/ coverLetter = PyNone
        \/ coverLetter.t = "str" /\ coverLetter.s # <<>>

\* C5: the three failure kinds have their own messages: a transport
\* failure shows "API request failed", a JSON object without the member
\* shows "API returned no generated text", and a body that is not JSON
\* shows "Failed to decode API response" and neither of the other two.
C5_FailuresDistinct ==
    netCalls > 0 =>
        /\ response.kind \in {"raise", "timeout", "status"} =>
              messages = <<MsgRequestFailed>>
        /\ (response.kind = "json" /\ response.data.t = "dict" /\ ~response.data.has) =>
              messages = <<MsgNoGeneratedText>>
        /\ response.kind = "badjson" => messages = <<MsgDecodeFailed>>

HasTextField ==
    /\ netCalls > 0
    /\ response.kind = "json"
    /\ response.data.t = "dict"
    /\ response.data.has

\* C6 as stated: when the service answers a JSON object with the member
\* (here: a string with something other than whitespace in it), the text
\* displayed and the text offered as cover_letter.txt are the value of
\* the member.
C6_DisplayedEqualsField ==
    (pc = "done" /\ HasTextField /\ response.data.v.t = "str"
       /\ Strip(response.data.v.s) # <<>>) =>
        /\ displayed = response.data.v
        /\ download = CoverLetterFile(response.data.v)

\* C6, amended: when the member is a string that is non-empty once
\* trimmed, the text displayed and the text offered as cover_letter.txt
\* are the same and are the member's value with leading and trailing
\* whitespace removed; nothing is displayed or offered in any other case.
C6_DisplayedEqualsStrippedField ==
    /\ (pc = "done" /\ HasTextField /\ response.data.v.t = "str"
          /\ Strip(response.data.v.s) # <<>>) =>
          /\ displayed = PyStr(Strip(response.data.v.s))
          /\ download = CoverLetterFile(displayed)
    /\ (displayed # PyNone \/ download # PyNone) =>
          /\ pc = "done"
          /\ HasTextField
          /\ response.data.v.t = "str"
          /\ displayed = PyStr(Strip(response.data.v.s))
          /\ download = CoverLetterFile(displayed)

C6_Witness ==
    /\ pc = "done"
    /\ response = [kind |-> "json", data |-> PyDict(TRUE, PyStr(<<" ", "a">>))]
    /\ displayed = PyStr(<<"a">>)
    /\ download = CoverLetterFile(PyStr(<<"a">>))

\* C7: with a file uploaded, the CV text of the click is what
\* extract_cv_text returned, the prompt is built from it, and an empty or
\* missing extraction ends the click without a request whatever the
\* free-text field holds; the free-text field, trimmed, is the CV text
\* only when no file is uploaded, and then extract_cv_text is not entered.
C7_UploadWins ==
    /\ (PastExtract /\ cvFile # PyNone) =>
          /\ extractCalled
          /\ cvText = extracted
          /\ netCalls > 0 => prompt = BuildPrompt(extracted.s, Strip(jobDescription))
          /\ extracted \in {PyNone, PyStr(<<>>)} =>
                /\ netCalls = 0
                /\ pc \in {"check_cv", "done"}
    /\ (PastExtract /\ cvFile = PyNone) =>
          /\ ~extractCalled
          /\ cvText = PyStr(Strip(cvTextInput))

C7_Witness ==
    /\ pc = "done"
    /\ cvFile = PyFile(<<"notes", "txt">>)
    /\ cvTextInput = <<"a">>
    /\ jobDescription = <<"a">>
    /\ extracted = PyStr(<<>>)
    /\ netCalls = 0
    /\ messages = <<MsgNoTextExtracted, MsgNoCv>>

\* C8: when the library raises inside a format extractor, extract_cv_text
\* still returns, its result is the empty text, the "No text extracted"
\* warning is shown, and no exception leaves extract_cv_text.
C8_ExtractionFailureCaught ==
    /\ (extractCalled /\ libRaised) =>
          /\ exception = "none"
          /\ extracted = PyStr(<<>>)
          /\ Shown(MsgNoTextExtracted)
          /\ pc \in {"check_cv", "done"}
    /\ (extractCalled /\ netCalls = 0) => exception = "none"

C8_Witness ==
    /\ pc = "done"
    /\ cvFile = PyFile(<<"notes", "txt">>)
    /\ libRaised
    /\ extractorsInvoked = {"txt"}
    /\ extracted = PyStr(<<>>)
    /\ messages = <<MsgNoTextExtracted, MsgNoCv>>

\* the part of the name after its last dot, lower-cased; a name without a
\* dot has no extension
ExtensionOf(name) == IF Len(name) >= 2 THEN Lower(name[Len(name)]) ELSE ""

\* C9: for every uploaded file whose extension is not pdf, docx or txt,
\* extract_cv_text returns None, shows the unsupported-file-type error and
\* enters no format extractor.
C9_UnsupportedExtensionRejected ==
    (extractCalled /\ ExtensionOf(cvFile.name) \notin {"pdf", "docx", "txt"}) =>
        /\ extracted = PyNone
        /\ Shown(MsgUnsupported)
        /\ extractorsInvoked = {}

\* C10: when a click has ended, a cover letter is displayed or at least
\* one error or warning has been shown.
C10_ClickHasVisibleOutcome ==
    pc = "done" => (displayed # PyNone \/ messages # <<>>)

====
